---- MODULE Spec2Model ----
(***************************************************************************)
(* EEPROM wear-levelling library (wear_levelling.c / wear_levelling.h /    *)
(* config.h).  The device is N sector slots, each a status byte and a      *)
(* payload region; the library's four functions are modelled at the        *)
(* granularity of one transport write (eeprom_write) per step, so that     *)
(* power can be lost between any two transport calls.                      *)
(***************************************************************************)
EXTENDS Integers, Sequences, FiniteSets, TLC

(* ---------------------------------------------------------------------- *)
(* Program constants                                                       *)
(* ---------------------------------------------------------------------- *)
SECTOR_INACTIVE == 0
SECTOR_ACTIVE == 1
NUMBER_OF_SECTORS == 4
CRC_LEN == 2

(* ---------------------------------------------------------------------- *)
(* Bounds of the model                                                     *)
(* ---------------------------------------------------------------------- *)
\* length of struct_data_t.data (64 in config.h), scaled down
DataLen == 2
\* longest run of consecutive writes after a load that is explored
MaxWrites == 5
\* number of events (write calls, clear calls, power losses) explored on
\* an arbitrary device, with any number of loads between them
MaxCalls == 1

\* sizeof(struct_data_t)
RecordSize == DataLen + CRC_LEN

\* build configurations of NUMBER_OF_SECTORS: the reference value and the
\* boundary values 1 and 2
SectorCounts == {1, 2, NUMBER_OF_SECTORS}

\* value of an erased (never written) EEPROM byte
ERASED == 2^8 - 1
\* "no index held": the caller has not yet received an index from load
NoSlot == NUMBER_OF_SECTORS

VARIABLES
    nsec,      \* NUMBER_OF_SECTORS of this build
    crcInit,   \* initial register value of the deployment's CRC-16
    size,      \* the size argument the application passes to load / write
    free,      \* FALSE: the caller threads the returned index and passes
               \* buffers with a correct CRC; TRUE: any index, any buffer
    status,    \* device: status byte of every slot
    payload,   \* device: payload region of every slot
    pc,        \* position inside the running library function
    op,        \* library function running or last completed
    idx,       \* loop variable i of eeprom_all_sectors_clear / sector argument
    cur,       \* current_sector inside eeprom_sector_write
    buf,       \* buffer argument of eeprom_sector_write
    sector,    \* local staging record of eeprom_sector_load
    cursor,    \* caller: index returned by the last load / write
    out,       \* caller: buffer handed to eeprom_sector_load
    ret,       \* last value returned by load / write
    boot,      \* history: how the last load ended: "no" bootstrap, bootstrap of
               \* an "empty" device, bootstrap after an active slot was "rejected"
    crash,     \* history: where power was last lost
    pre,       \* history: slot and payload of current_sector at write entry,
               \* and whether it was the one active slot
    s0,        \* history: index returned by the load that started the run
    nwrites,   \* history: completed writes since that load
    wcount,    \* history: payload writes received by each slot in the run
    ncalls,    \* history: events so far on an arbitrary device
    prevOp,    \* history: the call completed before the running / last one
    seen       \* history: the device as the last load left it, while no
               \* other call and no power loss has followed

vars == <<nsec, crcInit, size, free, status, payload, pc, op, idx, cur, buf,
          sector, cursor, out, ret, boot, crash, pre, s0, nwrites, wcount,
          ncalls, prevOp, seen>>

config == <<nsec, crcInit, size, free>>

Slots == 0 .. (nsec - 1)

(* ---------------------------------------------------------------------- *)
(* CRC-16 (external primitive calculate_crc16): polynomial 0x1021, with    *)
(* the initial value left to the deployment (0x0000 or 0xFFFF).            *)
(* ---------------------------------------------------------------------- *)
\* x^16 + x^12 + x^5 + 1
Poly == 2^12 + 2^5 + 1
CrcInits == {0, 2^16 - 1}

RECURSIVE XorBits(_, _, _)
XorBits(a, b, k) ==
    IF k = 0 THEN 0
    ELSE (((a % 2) + (b % 2)) % 2) + 2 * XorBits(a \div 2, b \div 2, k - 1)

\* exclusive or of two bytes, by nibbles
XorNibble == [a \in 0 .. 15 |-> [b \in 0 .. 15 |-> XorBits(a, b, 4)]]
XorByte(a, b) == 16 * XorNibble[a \div 16][b \div 16] + XorNibble[a % 16][b % 16]

\* one shift of the CRC register
CrcShift(crc) ==
    IF crc >= 2^15 THEN XorBits((crc * 2) % (2^16), Poly, 16)
    ELSE (crc * 2) % (2^16)

RECURSIVE CrcBits(_, _)
CrcBits(crc, k) == IF k = 0 THEN crc ELSE CrcBits(CrcShift(crc), k - 1)

\* the byte-wise table of the CRC
CrcTable == [b \in 0 .. 255 |-> CrcBits(b * (2^8), 8)]

\* crc = (crc << 8) ^ table[(crc >> 8) ^ b]
CrcByte(crc, b) ==
    LET t == CrcTable[XorByte(crc \div (2^8), b)]
    IN  (2^8) * XorByte(crc % (2^8), t \div (2^8)) + (t % (2^8))

RECURSIVE CrcFrom(_, _, _)
CrcFrom(init, data, length) ==
    IF length = 0 THEN init
    ELSE CrcByte(CrcFrom(init, data, length - 1), data[length])

calculate_crc16(data, length) == CrcFrom(crcInit, data, length)

\* the crc member of struct_data_t: the two bytes after data[], read as a
\* uint16_t (little-endian, on the writer's and the reader's side alike)
CrcField(rec) == rec[DataLen + 1] + (2^8) * rec[DataLen + 2]

(* ---------------------------------------------------------------------- *)
(* Transport (external primitives eeprom_write / eeprom_read): copy the    *)
(* first n bytes of src over the destination region.                       *)
(* ---------------------------------------------------------------------- *)
eeprom_write(mem, src, n) ==
    [i \in 1 .. Len(mem) |-> IF i <= n THEN src[i] ELSE mem[i]]

eeprom_read(dst, mem, n) ==
    [i \in 1 .. Len(dst) |-> IF i <= n THEN mem[i] ELSE dst[i]]

\* memcpy(buffer, &sector, size)
memcpy(dst, src, n) ==
    [i \in 1 .. Len(dst) |-> IF i <= n THEN src[i] ELSE dst[i]]

(* ---------------------------------------------------------------------- *)
(* Records                                                                 *)
(* ---------------------------------------------------------------------- *)
\* struct_data_t x = {0}
ZeroRecord == [i \in 1 .. RecordSize |-> 0]
ErasedRecord == [i \in 1 .. RecordSize |-> ERASED]

\* a record whose trailing crc member is the CRC of its data, as the
\* application builds it before calling eeprom_sector_write
MkRecord(data, ci) ==
    LET c == CrcFrom(ci, data, DataLen)
    IN  [i \in 1 .. RecordSize |->
            IF i <= DataLen THEN data[i]
            ELSE IF i = DataLen + 1 THEN c % (2^8) ELSE c \div (2^8)]

DataA == [i \in 1 .. DataLen |-> i]
DataB == [i \in 1 .. DataLen |-> 2 * i + 1]

\* a record whose crc member is wrong
BadRecord(ci) ==
    LET r == MkRecord(DataA, ci)
    IN  [r EXCEPT ![DataLen + 1] = (r[DataLen + 1] + 1) % (2^8)]

\* a buffer of n bytes as a writer that passes size = n builds it: n - 2
\* data bytes followed by their CRC (the bytes beyond n are not part of it)
MkSized(data, ci, n) ==
    LET c == CrcFrom(ci, data, n - CRC_LEN)
    IN  [i \in 1 .. RecordSize |->
            IF i <= n - CRC_LEN THEN data[i]
            ELSE IF i = n - 1 THEN c % (2^8)
            ELSE IF i = n THEN c \div (2^8) ELSE 0]

ValidBuffers == {MkRecord(DataA, crcInit), MkRecord(DataB, crcInit)}
Buffers == ValidBuffers \cup {BadRecord(crcInit), MkSized(DataA, crcInit, size)}

\* contents the caller's out buffer may have before a load: zeros, or
\* whatever the RAM happens to hold
JunkRecord == [i \in 1 .. RecordSize |-> 170]
OutInits == {ZeroRecord, JunkRecord}

\* device contents drawn for the arbitrary-device specification
\* contents of one slot drawn for the arbitrary-device specification:
\* cleared, erased, active with a valid record, active with a corrupted
\* record (the operations add active zeroed and inactive valid slots)
SlotSamples(ci) ==
    { [status |-> SECTOR_INACTIVE, payload |-> ZeroRecord],
      [status |-> ERASED,          payload |-> ErasedRecord],
      [status |-> SECTOR_ACTIVE,   payload |-> MkRecord(DataA, ci)],
      [status |-> SECTOR_ACTIVE,   payload |-> BadRecord(ci)] }

(* ---------------------------------------------------------------------- *)
(* eeprom_sector_load: the scan loop                                       *)
(* ---------------------------------------------------------------------- *)
\* faulty variant: no record passes the CRC comparison
CrcOk_Never(rec, n) == FALSE

\* calculate_crc16((uint8_t *)&sector, size - 2) == sector.crc
CrcOk(rec, n) == calculate_crc16(rec, n - CRC_LEN) = CrcField(rec)

\* faulty variants of the status test: every slot counts as active;
\* every status other than SECTOR_INACTIVE counts as active; the test is
\* inverted
IsActive_Any(st) == TRUE
IsActive_Inverted(st) == st # SECTOR_ACTIVE
IsActive_NotInactive(st) == st # SECTOR_INACTIVE

\* status == SECTOR_ACTIVE
IsActive(st) == st = SECTOR_ACTIVE

\* faulty variant of the scan: the last valid active slot wins
RECURSIVE Scan_LastMatch(_, _)
Scan_LastMatch(i, sec) ==
    IF i >= nsec
    THEN [found |-> FALSE, slot |-> 0, sector |-> sec]
    ELSE LET rest == Scan_LastMatch(i + 1, sec)
         IN  IF rest.found THEN rest
             ELSE IF status[i] = SECTOR_ACTIVE
                  THEN LET rd == eeprom_read(rest.sector, payload[i], size)
                       IN  [found |-> calculate_crc16(rd, size - CRC_LEN) = CrcField(rd),
                            slot |-> IF calculate_crc16(rd, size - CRC_LEN) = CrcField(rd)
                                     THEN i ELSE 0,
                            sector |-> rd]
                  ELSE rest

\* the for loop of eeprom_sector_load from slot i on, with staging record
\* sec: the slot returned, or no slot and the staging record left behind
RECURSIVE Scan(_, _)
Scan(i, sec) ==
    IF i >= nsec
    THEN [found |-> FALSE, slot |-> 0, sector |-> sec]
    ELSE IF IsActive(status[i])
         THEN LET rd == eeprom_read(sec, payload[i], size)
              IN  IF CrcOk(rd, size)
                  THEN [found |-> TRUE, slot |-> i, sector |-> rd]
                  ELSE Scan(i + 1, rd)
         ELSE Scan(i + 1, sec)

\* faulty variants of the rotation: two steps, no step, one step back
NextSector_Skip(c) == (c + 2) % nsec
NextSector_Stay(c) == c
NextSector_Back(c) == (c + nsec - 1) % nsec

\* current_sector = (current_sector + 1) % NUMBER_OF_SECTORS
NextSector(c) == (c + 1) % nsec

(* ---------------------------------------------------------------------- *)
(* History bookkeeping                                                     *)
(* ---------------------------------------------------------------------- *)
NoCrash == [op |-> "none", at |-> "none"]
NoCount == [s \in Slots |-> 0]
NoSeen == [status |-> <<>>, payload |-> <<>>]
NoPre == [slot |-> 0, payload |-> ZeroRecord, one |-> FALSE]

\* a run of writes ends (power loss) or has not begun
EndRun ==
    /\ s0' = NoSlot
    /\ nwrites' = 0
    /\ wcount' = NoCount

(* ---------------------------------------------------------------------- *)
(* Initial states                                                          *)
(* ---------------------------------------------------------------------- *)
InitRest ==
    /\ pc = "idle"
    /\ op = "none"
    /\ idx = 0
    /\ cur = 0
    /\ buf = ZeroRecord
    /\ sector = ZeroRecord
    /\ cursor = NoSlot
    /\ ret = 0
    /\ boot = "no"
    /\ crash = NoCrash
    /\ pre = NoPre
    /\ s0 = NoSlot
    /\ nwrites = 0
    /\ wcount = NoCount
    /\ ncalls = 0
    /\ prevOp = "none"
    /\ seen = NoSeen

\* a virgin (all-0xFF) device and a caller that threads the index
Init ==
    /\ nsec \in SectorCounts
    /\ crcInit \in CrcInits
    /\ size = RecordSize
    /\ free = FALSE
    /\ status = [s \in Slots |-> ERASED]
    /\ payload = [s \in Slots |-> ErasedRecord]
    /\ out \in OutInits
    /\ InitRest

\* any device contents and a caller that passes any index and any buffer
InitAny ==
    /\ nsec = NUMBER_OF_SECTORS
    /\ crcInit \in CrcInits
    /\ size = RecordSize
    /\ free = TRUE
    /\ \E dev \in [Slots -> SlotSamples(crcInit)] :
          /\ status = [s \in Slots |-> dev[s].status]
          /\ payload = [s \in Slots |-> dev[s].payload]
    /\ out = JunkRecord
    /\ InitRest

\* an application that passes any size from 2 (the CRC alone) up to
\* sizeof(struct_data_t), on a virgin device, on a device whose slot 0 was
\* bootstrapped, or on one whose slot a holds a record written with that size
InitSize ==
    /\ nsec = NUMBER_OF_SECTORS
    /\ crcInit \in CrcInits
    /\ size \in CRC_LEN .. RecordSize
    /\ free = TRUE
    /\ \/ /\ status = [s \in Slots |-> ERASED]
          /\ payload = [s \in Slots |-> ErasedRecord]
       \/ \E a \in Slots : \E d \in {DataA, DataB} :
             /\ status = [s \in Slots |->
                            IF s = a THEN SECTOR_ACTIVE ELSE SECTOR_INACTIVE]
             /\ payload = [s \in Slots |->
                             IF s = a
                             THEN eeprom_write(ZeroRecord,
                                               MkSized(d, crcInit, size), size)
                             ELSE ZeroRecord]
    /\ out = JunkRecord
    /\ InitRest

(* ---------------------------------------------------------------------- *)
(* setting_sector_clear / eeprom_all_sectors_clear                         *)
(* ---------------------------------------------------------------------- *)
\* the caller may use the library once it holds an index
Ready == pc = "idle" /\ (free \/ cursor # NoSlot)

\* one more event on an arbitrary device
Call ==
    /\ free => ncalls < MaxCalls
    /\ ncalls' = IF free THEN ncalls + 1 ELSE ncalls

\* faulty variant: the current sector is left active
StatusOfOld_Active == SECTOR_ACTIVE

\* faulty variant: the next sector is not marked active
StatusOfNew_Inactive == SECTOR_INACTIVE

\* status values written by eeprom_sector_write
StatusOfOld == SECTOR_INACTIVE
StatusOfNew == SECTOR_ACTIVE

\* faulty variant: the payload is filled with the erased pattern
empty_sector_Erased == ErasedRecord

\* struct_data_t empty_sector = {0}
empty_sector == ZeroRecord

\* call of setting_sector_clear(i2c, s) up to its status write
setting_sector_clear(s) ==
    /\ Ready
    /\ Call
    /\ status' = [status EXCEPT ![s] = SECTOR_INACTIVE]
    /\ idx' = s
    /\ op' = "clear_one"
    /\ prevOp' = op
    /\ pc' = "clr_payload"
    /\ crash' = NoCrash
    /\ pre' = NoPre
    /\ seen' = NoSeen
    /\ UNCHANGED <<config, payload, cur, buf, sector, cursor, out, ret, boot,
                   s0, nwrites, wcount>>

\* call of eeprom_all_sectors_clear(i2c) up to the status write of slot 0;
\* the helper the loop names, setting_system_state_clear, is defined nowhere
\* and is taken to be setting_sector_clear
eeprom_all_sectors_clear ==
    /\ Ready
    /\ Call
    /\ status' = [status EXCEPT ![0] = SECTOR_INACTIVE]
    /\ idx' = 0
    /\ op' = "clear_all"
    /\ prevOp' = op
    /\ pc' = "clr_payload"
    /\ crash' = NoCrash
    /\ pre' = NoPre
    /\ seen' = NoSeen
    /\ UNCHANGED <<config, payload, cur, buf, sector, cursor, out, ret, boot,
                   s0, nwrites, wcount>>

\* faulty variant: the loop leaves the status byte as it is
clear_status_Kept ==
    /\ pc = "clr_status"
    /\ pc' = "clr_payload"
    /\ UNCHANGED <<ncalls, prevOp, seen, config, status, payload, op, idx, cur, buf,
                   sector, cursor, out, ret, boot, crash, pre, s0, nwrites, wcount>>

\* eeprom_write(i2c, sector_status_address[sector], &status, 1) in the loop
clear_status ==
    /\ pc = "clr_status"
    /\ status' = [status EXCEPT ![idx] = SECTOR_INACTIVE]
    /\ pc' = "clr_payload"
    /\ UNCHANGED <<ncalls, prevOp, seen, config, payload, op, idx, cur, buf, sector,
                   cursor, out, ret, boot, crash, pre, s0, nwrites, wcount>>

\* eeprom_write(i2c, sector_address[sector], &empty_sector, sizeof empty_sector)
\* and the return to the caller, the next loop iteration or the bootstrap
clear_payload ==
    /\ pc = "clr_payload"
    /\ payload' = [payload EXCEPT
                     ![idx] = eeprom_write(payload[idx], empty_sector, RecordSize)]
    /\ IF op # "clear_one" /\ idx + 1 < nsec
       THEN pc' = "clr_status" /\ idx' = idx + 1
       ELSE /\ idx' = 0
            /\ pc' = IF op = "load" THEN "boot_status" ELSE "idle"
    /\ UNCHANGED <<ncalls, prevOp, seen, config, status, op, cur, buf, sector, cursor,
                   out, ret, boot, crash, pre, s0, nwrites, wcount>>

(* ---------------------------------------------------------------------- *)
(* eeprom_sector_load                                                      *)
(* ---------------------------------------------------------------------- *)
\* call of eeprom_sector_load(i2c, out, size): the scan, then either the
\* return of a valid active slot or the entry into eeprom_all_sectors_clear
eeprom_sector_load ==
    /\ pc = "idle"
    /\ LET r == Scan(0, ZeroRecord)
       IN  /\ boot' = IF r.found THEN "no"
                     ELSE IF \E s \in Slots : status[s] = SECTOR_ACTIVE
                          THEN "rejected" ELSE "empty"
           /\ IF r.found
              THEN /\ out' = memcpy(out, r.sector, size)
                   /\ ret' = r.slot
                   /\ cursor' = r.slot
                   /\ pc' = "idle"
                   /\ sector' = ZeroRecord
                   /\ s0' = IF free THEN NoSlot ELSE r.slot
                   /\ seen' = [status |-> status, payload |-> payload]
              ELSE /\ pc' = "clr_status"
                   /\ sector' = r.sector
                   /\ s0' = NoSlot
                   /\ UNCHANGED <<out, ret, cursor, seen>>
    /\ idx' = 0
    /\ op' = "load"
    /\ prevOp' = op
    /\ IF cursor = NoSlot
       THEN UNCHANGED <<crash, pre>>
       ELSE crash' = NoCrash /\ pre' = NoPre
    /\ nwrites' = 0
    /\ wcount' = NoCount
    /\ UNCHANGED <<ncalls, config, status, payload, cur, buf>>

\* status = SECTOR_ACTIVE; eeprom_write(i2c, sector_status_address[0], ...)
load_bootstrap_status ==
    /\ pc = "boot_status"
    /\ status' = [status EXCEPT ![0] = SECTOR_ACTIVE]
    /\ pc' = "boot_payload"
    /\ UNCHANGED <<ncalls, prevOp, seen, config, payload, op, idx, cur, buf, sector,
                   cursor, out, ret, boot, crash, pre, s0, nwrites, wcount>>

\* eeprom_write(i2c, sector_address[0], &sector, size); return 0
load_bootstrap_payload ==
    /\ pc = "boot_payload"
    /\ payload' = [payload EXCEPT ![0] = eeprom_write(payload[0], sector, size)]
    /\ ret' = 0
    /\ cursor' = 0
    /\ pc' = "idle"
    /\ sector' = ZeroRecord
    /\ s0' = IF free THEN NoSlot ELSE 0
    /\ seen' = [status |-> status, payload |-> payload']
    /\ UNCHANGED <<ncalls, prevOp, config, status, op, idx, cur, buf, out, boot, crash, pre,
                   nwrites, wcount>>

(* ---------------------------------------------------------------------- *)
(* eeprom_sector_write                                                     *)
(* ---------------------------------------------------------------------- *)
\* call of eeprom_sector_write(i2c, B, size, c) up to the status write that
\* deactivates current_sector, and the step to the next sector
eeprom_sector_write(c, B) ==
    /\ pc = "idle"
    /\ Call
    /\ free \/ (c = cursor /\ B \in ValidBuffers)
    /\ nwrites < MaxWrites
    /\ status' = [status EXCEPT ![c] = StatusOfOld]
    /\ cur' = NextSector(c)
    /\ buf' = B
    /\ op' = "write"
    /\ prevOp' = op
    /\ pc' = "w_act"
    /\ crash' = NoCrash
    /\ pre' = [slot |-> c, payload |-> payload[c],
               one |-> {s \in Slots : status[s] = SECTOR_ACTIVE} = {c}]
    /\ seen' = NoSeen
    /\ UNCHANGED <<config, payload, idx, sector, cursor, out, ret, boot, s0,
                   nwrites, wcount>>

\* faulty variant: the payload is written before the new sector is activated
write_activate_PayloadFirst ==
    /\ pc = "w_act"
    /\ payload' = [payload EXCEPT ![cur] = eeprom_write(payload[cur], buf, size)]
    /\ pc' = "w_payload"
    /\ UNCHANGED <<ncalls, prevOp, seen, config, status, op, idx, cur, buf, sector,
                   cursor, out, ret, boot, crash, pre, s0, nwrites, wcount>>

\* status = SECTOR_ACTIVE; eeprom_write(i2c, sector_status_address[current_sector], ...)
write_activate ==
    /\ pc = "w_act"
    /\ status' = [status EXCEPT ![cur] = StatusOfNew]
    /\ pc' = "w_payload"
    /\ UNCHANGED <<ncalls, prevOp, seen, config, payload, op, idx, cur, buf, sector,
                   cursor, out, ret, boot, crash, pre, s0, nwrites, wcount>>

\* eeprom_write(i2c, sector_address[current_sector], buffer, size); return
write_payload ==
    /\ pc = "w_payload"
    /\ payload' = [payload EXCEPT ![cur] = eeprom_write(payload[cur], buf, size)]
    /\ ret' = cur
    /\ cursor' = cur
    /\ pc' = "idle"
    /\ IF free
       THEN UNCHANGED <<nwrites, wcount>>
       ELSE /\ nwrites' = nwrites + 1
            /\ wcount' = [wcount EXCEPT ![cur] = wcount[cur] + 1]
    /\ UNCHANGED <<ncalls, prevOp, seen, config, status, op, idx, cur, buf, sector, out,
                   boot, crash, pre, s0>>

(* ---------------------------------------------------------------------- *)
(* Power loss between two transport calls: the device keeps what has been  *)
(* written, the caller's RAM is lost and the application starts again.     *)
(* ---------------------------------------------------------------------- *)
PowerLoss ==
    /\ pc # "idle"
    /\ Call
    /\ crash' = [op |-> op, at |-> pc]
    /\ pc' = "idle"
    /\ op' = "none"
    /\ cursor' = NoSlot
    /\ out' = JunkRecord
    /\ idx' = 0
    /\ sector' = ZeroRecord
    /\ seen' = NoSeen
    /\ EndRun
    /\ UNCHANGED <<prevOp, config, status, payload, cur, buf, ret, boot, pre>>

Next ==
    \/ \E s \in Slots : setting_sector_clear(s)
    \/ eeprom_all_sectors_clear
    \/ clear_status
    \/ clear_payload
    \/ eeprom_sector_load
    \/ load_bootstrap_status
    \/ load_bootstrap_payload
    \/ \E c \in Slots : \E B \in Buffers : eeprom_sector_write(c, B)
    \/ write_activate
    \/ write_payload
    \/ PowerLoss

Spec == Init /\ [][Next]_vars

SpecAny == InitAny /\ [][Next]_vars

SpecSize == InitSize /\ [][Next]_vars

TypeOK ==
    /\ nsec \in SectorCounts
    /\ pc \in {"idle", "clr_status", "clr_payload", "boot_status",
               "boot_payload", "w_act", "w_payload"}
    /\ cur \in Slots
    /\ idx \in Slots
    /\ cursor \in Slots \cup {NoSlot}
    /\ \A s \in Slots : Len(payload[s]) = RecordSize

(* ---------------------------------------------------------------------- *)
(* Vocabulary of the properties                                            *)
(* ---------------------------------------------------------------------- *)
\* the slots whose status byte is 1
ActiveSlots == {s \in Slots : status[s] = SECTOR_ACTIVE}

\* the record's trailing CRC is the CRC of its data bytes
RecordValid(rec) ==
    CrcFrom(crcInit, rec, DataLen) = rec[DataLen + 1] + (2^8) * rec[DataLen + 2]

\* the slots that are active and hold a record with a correct CRC
ValidSlots == {s \in ActiveSlots : RecordValid(payload[s])}

Min(S) == CHOOSE x \in S : \A y \in S : x <= y

\* the library is idle and the last call, o, ran to completion
Done(o) == pc = "idle" /\ op = o

\* the device as a bootstrap is meant to leave it
Bootstrapped ==
    /\ status[0] = SECTOR_ACTIVE
    /\ payload[0] = ZeroRecord
    /\ \A s \in Slots \ {0} :
          status[s] = SECTOR_INACTIVE /\ payload[s] = ZeroRecord

RECURSIVE SumTo(_, _)
SumTo(f, n) == IF n = 0 THEN 0 ELSE f[n - 1] + SumTo(f, n - 1)

(* ---------------------------------------------------------------------- *)
(* C1..C10                                                                 *)
(* ---------------------------------------------------------------------- *)

\* C1: after power is lost inside a write (threaded index, buffer with a
\* correct CRC) the next load returns the pre-write payload with its slot,
\* or the new payload with the new slot; it may bootstrap (slot 0, zero
\* payload) only if power was lost after the new slot was activated and
\* before its payload was written.  Stated for the build with N = 4.
C1_CrashSafeWrite ==
    (Done("load") /\ crash.op = "write" /\ ~free
                  /\ nsec = NUMBER_OF_SECTORS) =>
        \/ boot = "no" /\ ret = pre.slot /\ out = pre.payload
        \/ boot = "no" /\ ret = cur /\ out = buf
        \/ boot # "no" /\ crash.at = "w_payload" /\ ret = 0
                       /\ payload[0] = ZeroRecord

\* C2: after every completed write (threaded index, buffer with a correct
\* CRC) exactly one slot is active, it is the returned index and its stored
\* payload passes the CRC check; for N = 4, N = 1 and N = 2.
C2_OneActiveAfterWrite ==
    (Done("write") /\ ~free) =>
        /\ ActiveSlots = {ret}
        /\ RecordValid(payload[ret])

C2_Witness ==
    /\ Done("write") /\ ~free
    /\ nsec = 1
    /\ nwrites >= 2
    /\ payload[0] = MkRecord(DataB, crcInit)

\* C3: a load that directly follows a completed write of buffer B returns
\* the slot the write returned and fills the out buffer with B.
C3_RoundTrip ==
    (Done("load") /\ prevOp = "write" /\ ~free) =>
        /\ boot = "no"
        /\ ret = cur
        /\ out = buf

C3_Witness ==
    /\ Done("load") /\ prevOp = "write" /\ ~free
    /\ \E s \in Slots :
          /\ s < ret
          /\ RecordValid(payload[s])
          /\ payload[s] # ZeroRecord
          /\ payload[s] # buf

\* C4: on every return of load, bootstrap included, the first size bytes of
\* the out buffer equal the payload stored in the returned slot.  Stated
\* for the build with N = 4.
C4_OutOverwritten ==
    (Done("load") /\ nsec = NUMBER_OF_SECTORS) =>
        \A i \in 1 .. size : out[i] = payload[ret][i]

\* C5: when load bootstraps because an active slot's payload failed its
\* CRC, it returns 0 and leaves slot 0 active with a zero payload and every
\* other slot inactive with a zero payload.
C5_RejectedBootstrap ==
    (Done("load") /\ boot = "rejected") => (ret = 0 /\ Bootstrapped)

C7_RoundRobin ==
    (Done("write") /\ ~free /\ s0 # NoSlot) =>
        /\ ret = (s0 + nwrites) % nsec
        /\ (s0 = 0 /\ nwrites = nsec) =>
              (ret = 0 /\ ActiveSlots = {0} /\ payload[0] = buf)

C7_Witness ==
    /\ Done("write") /\ ~free
    /\ nsec = NUMBER_OF_SECTORS
    /\ s0 = 0 /\ nwrites = nsec
    /\ ret = 0

\* C8: load returns the lowest-index slot that is active and CRC-valid,
\* leaving the device alone; it enters the bootstrap path exactly when no
\* slot is both active and CRC-valid.
C8_LowestValid ==
    [][(pc = "idle" /\ op' = "load") =>
          IF ValidSlots # {}
          THEN /\ pc' = "idle"
               /\ boot' = "no"
               /\ ret' = Min(ValidSlots)
          ELSE /\ pc' = "clr_status"
               /\ boot' # "no"]_vars

C8_Witness ==
    /\ Done("load") /\ boot = "no"
    /\ \E s \in ActiveSlots : s < ret /\ ~RecordValid(payload[s])
    /\ \E t \in ValidSlots : t > ret

\* C9: over a run of K completed writes with the index threaded, every
\* slot has received floor(K/N) or ceil(K/N) payload writes.
C9_Fairness ==
    (pc = "idle" /\ ~free /\ s0 # NoSlot) =>
        /\ SumTo(wcount, nsec) = nwrites
        /\ \A a \in Slots :
              wcount[a] \in {nwrites \div nsec, (nwrites + nsec - 1) \div nsec}

C9_Witness ==
    /\ Done("write") /\ ~free /\ s0 # NoSlot
    /\ nsec = NUMBER_OF_SECTORS
    /\ nwrites = nsec + 1
    /\ \E a \in Slots : wcount[a] = 2
    /\ \E b \in Slots : wcount[b] = 1

\* C10: a write called with current_sector = c changes only the status
\* byte of slot c and the status byte and payload of slot (c + 1) mod N.
C10_WriteFrame ==
    [][(op' = "write" /\ \/ pc = "idle" /\ pc' = "w_act"
                         \/ pc = "w_act" /\ pc' = "w_payload"
                         \/ pc = "w_payload" /\ pc' = "idle") =>
          /\ payload'[pre'.slot] = payload[pre'.slot]
          /\ \A s \in Slots \ {pre'.slot, (pre'.slot + 1) % nsec} :
                status'[s] = status[s] /\ payload'[s] = payload[s]]_vars

C10_Witness ==
    /\ Done("write") /\ free
    /\ payload[cur] = buf
    /\ \E s \in Slots \ {pre.slot, cur} :
          status[s] = SECTOR_ACTIVE /\ payload[s] = BadRecord(crcInit)

(* ---------------------------------------------------------------------- *)
(* C11..C19                                                                *)
(* ---------------------------------------------------------------------- *)

\* the slot is inactive and its payload is all zeros
Cleared(s) == status[s] = SECTOR_INACTIVE /\ payload[s] = ZeroRecord

\* C11: setting_sector_clear(slot) writes status inactive, then an all-zero
\* payload, to that slot and to no other; eeprom_all_sectors_clear does so
\* for the slots in ascending order, on completion every slot is inactive
\* with a zero payload, and a load that follows takes the bootstrap path.
C11_ClearEffect ==
    [][/\ (pc = "idle" /\ op' = "clear_one") =>
              /\ status' = [status EXCEPT ![idx'] = SECTOR_INACTIVE]
              /\ payload' = payload
       /\ (pc = "clr_payload" /\ op' = "clear_one") =>
              /\ status' = status
              /\ status[idx] = SECTOR_INACTIVE
              /\ payload' = [payload EXCEPT ![idx] = ZeroRecord]
       /\ (op' = "clear_all" /\ pc' = "clr_payload") =>
              /\ status' = [status EXCEPT ![idx'] = SECTOR_INACTIVE]
              /\ payload' = payload
              /\ \A s \in Slots : s < idx' => Cleared(s)'
       /\ (op' = "clear_all" /\ pc = "clr_payload") =>
              /\ status' = status
              /\ payload' = [payload EXCEPT ![idx] = ZeroRecord]
              /\ \A s \in Slots : s <= idx => Cleared(s)'
              /\ IF idx = nsec - 1 THEN pc' = "idle"
                 ELSE pc' = "clr_status" /\ idx' = idx + 1
       /\ (op' = "clear_all" /\ pc # "idle" /\ pc' = "idle") =>
              \A s \in Slots : Cleared(s)'
       /\ (Done("clear_all") /\ op' = "load") =>
              pc' = "clr_status" /\ boot' = "empty"]_vars

C11_Witness ==
    /\ Done("clear_all") /\ prevOp = "write"
    /\ nsec = NUMBER_OF_SECTORS
    /\ buf # ZeroRecord
    /\ \A s \in Slots : Cleared(s)

\* C12: one eeprom_sector_write issues exactly three transport writes, in
\* this order: status inactive to current_sector, status active to
\* (current_sector + 1) mod N, the first size bytes of the buffer to that
\* new slot's payload; each step changes nothing else on the device.
C12_WriteOrder ==
    [][/\ (pc = "idle" /\ op' = "write") =>
              /\ pc' = "w_act"
              /\ status' = [status EXCEPT ![pre'.slot] = SECTOR_INACTIVE]
              /\ payload' = payload
       /\ (pc = "w_act" /\ op' = "write") =>
              /\ pc' = "w_payload"
              /\ status' = [status EXCEPT ![(pre.slot + 1) % nsec] = SECTOR_ACTIVE]
              /\ payload' = payload
       /\ (pc = "w_payload" /\ op' = "write") =>
              /\ pc' = "idle"
              /\ ret' = (pre.slot + 1) % nsec
              /\ status' = status
              /\ \A s \in Slots \ {ret'} : payload'[s] = payload[s]
              /\ \A i \in 1 .. RecordSize :
                    payload'[ret'][i] = IF i <= size THEN buf[i]
                                        ELSE payload[ret'][i]]_vars

C12_Witness ==
    /\ Done("write") /\ free
    /\ buf = BadRecord(crcInit)
    /\ pre.payload = MkRecord(DataA, crcInit)
    /\ status[pre.slot] = SECTOR_INACTIVE
    /\ ActiveSlots = {ret}
    /\ payload[ret] = buf

\* C13: during a write that started with current_sector the one active
\* slot, the number of active slots is 0, 1 or 2 between any two transport
\* calls: no slot is active once the old slot is invalidated, only the new
\* slot is active from its activation on, and after the payload write the
\* new slot is active and, for a buffer with a correct CRC, CRC-valid.
C13_CrashWindow ==
    (op = "write" /\ pre.one) =>
        /\ Cardinality(ActiveSlots) \in {0, 1, 2}
        /\ pc = "w_act" => ActiveSlots = {}
        /\ pc = "w_payload" => ActiveSlots = {(pre.slot + 1) % nsec}
        /\ pc = "idle" =>
              /\ ActiveSlots = {ret}
              /\ ret = (pre.slot + 1) % nsec
              /\ RecordValid(buf) => RecordValid(payload[ret])

C13_Witness ==
    /\ Done("write") /\ pre.one
    /\ pre.payload = MkRecord(DataA, crcInit)
    /\ buf = MkRecord(DataB, crcInit)
    /\ payload[ret] = buf
    /\ \E s \in Slots \ {pre.slot, ret} : status[s] = ERASED

\* C14: when power is lost in a write (current_sector the one active slot)
\* after the new slot was activated and before its payload was written,
\* the next load rejects the new slot and bootstraps: it returns 0 and
\* slot 0 holds a zero payload; also when the new slot's payload region
\* still holds a record of an earlier rotation.  Stated for N = 4.
C14_CrashAfterActivate ==
    (Done("load") /\ crash.op = "write" /\ crash.at = "w_payload"
                  /\ pre.one /\ ~free /\ nsec = NUMBER_OF_SECTORS) =>
        /\ boot = "rejected"
        /\ ret = 0
        /\ payload[0] = ZeroRecord

SizedValid(rec, n) ==
    CrcFrom(crcInit, rec, n - 2) = rec[n - 1] + (2^8) * rec[n]

\* C16: for every size argument from 2 to the record size, load accepts an
\* active slot exactly when the CRC of the first size - 2 bytes read equals
\* the last two of the size bytes read: it returns the lowest active slot
\* whose record passes that test and bootstraps when none does.
C16_CrcCoverage ==
    [][(pc = "idle" /\ op' = "load") =>
          LET ok == {s \in ActiveSlots : SizedValid(payload[s], size)}
          IN  IF ok # {}
              THEN pc' = "idle" /\ ret' = Min(ok)
              ELSE pc' = "clr_status"]_vars

\* C17: a load on a device with an active slot whose CRC is valid returns
\* without a transport write: it completes in its scan, and every status
\* byte and every payload is as before, so that other active slots, valid
\* or not, stay active.
C17_LoadFrame ==
    [][(pc = "idle" /\ op' = "load" /\ ValidSlots # {}) =>
          /\ pc' = "idle"
          /\ status' = status
          /\ payload' = payload
          /\ ActiveSlots' = ActiveSlots]_vars

C17_Witness ==
    /\ Done("load") /\ boot = "no"
    /\ \E s \in ActiveSlots : s > ret /\ ~RecordValid(payload[s])
    /\ \E t \in ActiveSlots : t < ret
    /\ Cardinality(ActiveSlots) = nsec

\* C18: a load called directly after a completed load returns the same
\* slot index and, when it returns, the device (every status byte and
\* every payload) is as the first load left it, whether the first load
\* found a valid slot or bootstrapped.
C18_LoadIdempotent ==
    [][(op' = "load" /\ pc' = "idle" /\ seen # NoSeen) =>
          /\ ret' = ret
          /\ status' = seen.status
          /\ payload' = seen.payload]_vars

C18_Witness ==
    /\ Done("load") /\ prevOp = "load"
    /\ boot = "rejected"
    /\ ret = 0
    /\ payload[0] = BadRecord(crcInit)
    /\ seen = [status |-> status, payload |-> payload]

\* C19: when power is lost between two transport calls of load's bootstrap
\* path (in the clearing of the slots, or before the activation or the
\* payload write of slot 0), a following load that completes returns 0 and
\* leaves slot 0 the only active slot and every other slot inactive.
C19_BootstrapRecovery ==
    (Done("load") /\ crash.op = "load") =>
        /\ ret = 0
        /\ ActiveSlots = {0}
        /\ \A s \in Slots \ {0} : status[s] = SECTOR_INACTIVE

C19_Witness ==
    /\ Done("load") /\ crash.op = "load" /\ crash.at = "clr_payload"
    /\ boot = "rejected"
    /\ payload[0] = BadRecord(crcInit)
    /\ ActiveSlots = {0}

====
